---- MODULE Spec2Model ----
(***************************************************************************)
(* Model of src/TTS.py: the attendance system's persistence engine         *)
(* (DataManager) and roll-call session (AttendanceSystem).                 *)
(*                                                                         *)
(* Strings that the code inspects character by character (class names,     *)
(* file base names) are sequences of one-character strings.  A file path   *)
(* "data/<base>_<kind>.xlsx" is the record [base, kind].  An .xlsx table   *)
(* is [exists, rows]; its header row is fixed by its kind.                 *)
(***************************************************************************)
EXTENDS Integers, Sequences, FiniteSets, TLC

VARIABLES
    fs,             \* the data directory: path -> [exists, rows]
    index,          \* rows of data/classes.xlsx as written (cells)
    classes,        \* self.classes
    class_list,     \* self.class_list (items of the QListWidget)
    current_row,    \* self.class_list.currentRow()
    current_class,  \* self.current_class
    current_files,  \* self.current_files
    students,       \* self.students
    current_index,  \* self.current_index
    running,        \* VoiceThreads started and not yet finished
    alive           \* the process is running (nothing aborted it)

vars == <<fs, index, classes, class_list, current_row,
          current_class, current_files, students, current_index, running, alive>>

(* ------------------------------ bounds -------------------------------- *)
MaxClasses == 2     \* rows of the index / items of the class list
MaxLog     == 2     \* attendance rows on disk
MaxRunning == 2     \* VoiceThreads running at once

(* ------------------------------ strings ------------------------------- *)
IllegalChars == {"\\", "/", "*", "?", ":", "\"", "<", ">", "|"}

RECURSIVE lstrip(_)
lstrip(s) == IF s # <<>> /\ Head(s) = " " THEN lstrip(Tail(s)) ELSE s

RECURSIVE rstrip(_)
rstrip(s) == IF s # <<>> /\ s[Len(s)] = " " THEN rstrip(SubSeq(s, 1, Len(s) - 1)) ELSE s

\* str.strip()
strip(s) == rstrip(lstrip(s))

\* re.sub(r'[\\/*?:"<>|]', '', s)
re_sub(s) == SelectSeq(s, LAMBDA c : c \notin IllegalChars)

\* str.replace(" ", "_")
replace(s) == [i \in 1..Len(s) |-> IF s[i] = " " THEN "_" ELSE s[i]]

\* save_class: the file base name of a class name
SaveBaseName(class_name) == replace(re_sub(strip(class_name)))

\* import_students: the file base name of the selected class
ImportBaseName(class_name) == replace(strip(class_name))

(* A cell of the index's name column read back by pd.read_excel: an empty  *)
(* string, and the text "nan", come back as NaN; astype(str) prints NaN as *)
(* "nan".  NaN and "nan" are the one token NaNName, which equals no name   *)
(* typed over the alphabet of ClassNames.                                  *)
NaNName == <<"nan">>
read_name(cell) == IF cell = <<>> THEN NaNName ELSE cell

\* self.current_class = None
NoClass == <<"None">>

(* ------------------------------ inputs -------------------------------- *)
\* what the user types in the new-class dialog
ClassNames == { <<>>, <<"a">>, <<"a", "?">>, <<" ", "a">> }

Kinds == {"students", "attendance", "stats"}
KindOrder == <<"students", "attendance", "stats">>
\* a name whose files are not those of the names of ClassNames
OtherName == <<"b">>
Bases == {SaveBaseName(n) : n \in ClassNames} \cup {ImportBaseName(n) : n \in ClassNames}
           \cup {NaNName} \cup {SaveBaseName(OtherName)}
Paths == [base : Bases, kind : Kinds]
Path(b, k) == [base |-> b, kind |-> k]
\* self.current_files.get(k, "") of an empty dict
NoPath == [base |-> <<>>, kind |-> "none"]
NoFiles == [students |-> NoPath, attendance |-> NoPath, stats |-> NoPath]

Status == {"Present", "Absent", "Leave"}
Blank == "nan"

(* ------------------------------ tables -------------------------------- *)
NoFile == [exists |-> FALSE, rows |-> <<>>]
\* pd.DataFrame(columns=self._get_headers(file_type)).to_excel(path)
EmptyTable == [exists |-> TRUE, rows |-> <<>>]
\* os.path.exists(path)
Exists(f, p) == p \in Paths /\ f[p].exists

Row(i, n) == [id |-> i, name |-> n]
ZeroCount == [s \in Status |-> 0]

\* df.dropna()
dropna(rows) == SelectSeq(rows, LAMBDA r : r.id # Blank /\ r.name # Blank)

\* df.drop_duplicates(): the first of each run of equal rows is kept, in order
RECURSIVE drop_duplicates(_)
drop_duplicates(rows) ==
    IF rows = <<>> THEN <<>>
    ELSE LET init == drop_duplicates(SubSeq(rows, 1, Len(rows) - 1))
             r == rows[Len(rows)]
         IN IF \E i \in 1..Len(init) : init[i] = r THEN init ELSE Append(init, r)

\* the statistics rows import_students builds from a roster
InitStats(roster) ==
    [i \in 1..Len(roster) |-> [id |-> roster[i].id, name |-> roster[i].name, cnt |-> ZeroCount]]

\* stats_df.loc[stats_df['id'] == student_id, status] += 1
IncrementStat(rows, student_id, status) ==
    [i \in 1..Len(rows) |->
        IF rows[i].id = student_id THEN [rows[i] EXCEPT !.cnt[status] = @ + 1] ELSE rows[i]]

\* pd.read_excel(self.classes_path): the name column as pandas reads it
ReadIndex(idx) == [i \in 1..Len(idx) |-> [idx[i] EXCEPT !.name = read_name(@)]]

\* DataManager.load_classes
load_classes(idx) == ReadIndex(idx)

FilesOf(row) ==
    [students |-> row.students, attendance |-> row.attendance, stats |-> row.stats]

(* DataManager.save_class: the three files are created where missing, then *)
(* the index is read and the raw name looked up in it.                     *)
save_class(class_name, f, idx) ==
    LET base_name == SaveBaseName(class_name)
        f1 == [p \in Paths |->
                 IF p.base = base_name /\ ~f[p].exists THEN EmptyTable ELSE f[p]]
        df == ReadIndex(idx)
        new_row == [name |-> class_name,
                    students |-> Path(base_name, "students"),
                    attendance |-> Path(base_name, "attendance"),
                    stats |-> Path(base_name, "stats")]
    IN IF \E i \in 1..Len(df) : df[i].name = class_name
       THEN [fs |-> f1, index |-> idx, error |-> "ValueError"]
       ELSE [fs |-> f1, index |-> Append(df, new_row), error |-> "none"]

(* ------------------------------ messages ------------------------------ *)
(* The QMessageBox a handler shows is the msg field of its result:         *)
(*   "none"                  no box                                        *)
(*   "info_created"          information "成功" (create_class)             *)
(*   "warn_exists"           warning "班级名称已存在"                      *)
(*   "warn_select_delete"    warning "请先选择要删除的班级"                *)
(*   "info_deleted"          information "删除成功"                        *)
(*   "crit_permission"       critical "权限错误"                           *)
(*   "warn_select_class"     warning "请先选择班级"                        *)
(*   "crit_load_failed"      critical "数据加载失败"                       *)
(*   "crit_no_class"         critical "未选择有效班级"                     *)
(*   "crit_record_failed"    critical "记录失败"                           *)
(*   "info_complete"         information "本班考勤已完成"                  *)
(*   "info_imported"         information "成功" (import_students)          *)
(*   "crit_import_failed"    critical "导入失败"                           *)
ErrorMsgs == {"warn_exists", "warn_select_delete", "crit_permission", "warn_select_class",
              "crit_load_failed", "crit_no_class", "crit_record_failed",
              "crit_import_failed"}

Init ==
    /\ fs = [p \in Paths |-> NoFile]
    /\ index = <<>>
    /\ classes = <<>>
    /\ class_list = <<>>
    /\ current_row = -1
    /\ current_class = NoClass
    /\ current_files = NoFiles
    /\ students = <<>>
    /\ current_index = 0
    /\ running = 0
    /\ alive = TRUE

\* the process is aborted: what it held in memory is gone
Abort ==
    /\ alive' = FALSE
    /\ classes' = <<>>
    /\ class_list' = <<>>
    /\ current_row' = -1
    /\ current_class' = NoClass
    /\ current_files' = NoFiles
    /\ students' = <<>>
    /\ current_index' = 0
    /\ running' = 0

(* ------------------------------ handlers ------------------------------ *)
(* Each handler is a function of the state and its inputs giving the       *)
(* values it leaves and the message it shows; the action of the same name  *)
(* installs them.                                                          *)

\* AttendanceSystem.create_class
create_result(class_name) ==
    IF class_name = <<>>
    THEN [fs |-> fs, index |-> index, classes |-> classes, class_list |-> class_list,
          msg |-> "none"]
    ELSE LET r == save_class(class_name, fs, index)
         IN IF r.error = "none"
            THEN [fs |-> r.fs, index |-> r.index, classes |-> load_classes(r.index),
                  class_list |-> Append(class_list, class_name), msg |-> "info_created"]
            ELSE [fs |-> r.fs, index |-> r.index, classes |-> classes,
                  class_list |-> class_list, msg |-> "warn_exists"]

create_class(class_name) ==
    /\ alive
    /\ LET r == create_result(class_name)
       IN /\ r.msg = "info_created" =>
                Len(index) < MaxClasses /\ Len(class_list) < MaxClasses
          /\ fs' = r.fs
          /\ index' = r.index
          /\ classes' = r.classes
          /\ class_list' = r.class_list
    /\ UNCHANGED <<current_row, current_class, current_files,
                   students, current_index, running, alive>>

\* AttendanceSystem.select_class, item = row i of the list
select_result(i) ==
    LET hits == {j \in 1..Len(classes) : classes[j].name = class_list[i + 1]}
    IN [current_class |-> class_list[i + 1],
        current_files |-> IF hits = {} THEN current_files
                          ELSE FilesOf(classes[CHOOSE j \in hits : \A k \in hits : j <= k])]

select_class(i) ==
    /\ alive
    /\ i \in 0..(Len(class_list) - 1)
    /\ current_row' = i
    /\ current_class' = select_result(i).current_class
    /\ current_files' = select_result(i).current_files
    /\ UNCHANGED <<fs, index, classes, class_list, students,
                   current_index, running, alive>>

\* the process is started (again): AttendanceSystem.__init__
Restart ==
    /\ alive' = TRUE
    /\ classes' = load_classes(index)
    /\ class_list' = [i \in 1..Len(index) |-> load_classes(index)[i].name]
    /\ current_row' = -1
    /\ current_class' = NoClass
    /\ current_files' = NoFiles
    /\ students' = <<>>
    /\ current_index' = 0
    /\ running' = 0
    /\ UNCHANGED <<fs, index>>

(* AttendanceSystem.replay_name with self.students = sts and               *)
(* self.current_index = idx starts a VoiceThread exactly when idx is in    *)
(* range.                                                                  *)
Speaks(sts, idx) == 0 <= idx /\ idx < Len(sts)

(* A handler ends having set the session to (sts, idx), announcing or not. *)
(* The new VoiceThread replaces self.voice_thread; the thread it replaces  *)
(* is neither stopped nor waited for, and when it is still running its     *)
(* QThread object is destroyed, which either aborts the process or leaves  *)
(* both speaking.                                                          *)
Finish(sts, idx, announce) ==
    \/ /\ announce => running < MaxRunning
       /\ running' = IF announce THEN running + 1 ELSE running
       /\ students' = sts
       /\ current_index' = idx
       /\ UNCHANGED <<classes, class_list, current_row, current_class, current_files, alive>>
    \/ /\ announce
       /\ running > 0
       /\ Abort

\* the replay button
replay_name ==
    /\ alive
    /\ Speaks(students, current_index)
    /\ Finish(students, current_index, TRUE)
    /\ UNCHANGED <<fs, index>>

\* VoiceThread.run returns
VoiceFinished ==
    /\ running > 0
    /\ running' = running - 1
    /\ UNCHANGED <<fs, index, classes, class_list, current_row,
                   current_class, current_files, students, current_index, alive>>

\* AttendanceSystem.start_attendance (with update_student_display)
start_result ==
    IF current_class = NoClass
    THEN [students |-> students, current_index |-> current_index,
          msg |-> "warn_select_class", announce |-> FALSE]
    ELSE IF ~Exists(fs, current_files.students)
    THEN \* KeyError of an empty current_files, or read_excel of a missing file
         [students |-> students, current_index |-> current_index,
          msg |-> "crit_load_failed", announce |-> FALSE]
    ELSE IF fs[current_files.students].rows = <<>>
    THEN \* IndexError in update_student_display, after the assignments
         [students |-> <<>>, current_index |-> 0,
          msg |-> "crit_load_failed", announce |-> FALSE]
    ELSE [students |-> fs[current_files.students].rows, current_index |-> 0,
          msg |-> "none", announce |-> TRUE]

start_attendance ==
    /\ alive
    /\ Finish(start_result.students, start_result.current_index, start_result.announce)
    /\ UNCHANGED <<fs, index>>

\* the row record_status appends to the attendance log (its date and time
\* columns, which no code reads, are left out)
Record(student, status) ==
    [id |-> student.id, name |-> student.name, status |-> status]

WriteFile(f, p, rows) == [f EXCEPT ![p] = [exists |-> TRUE, rows |-> rows]]

(* record_status with the cursor increment of line 339 placed before the   *)
(* statistics update of lines 334-336: a failure of that update leaves the *)
(* cursor advanced.                                                        *)
record_result_early_increment(status, fail) ==
    IF current_files.attendance = NoPath
    THEN [fs |-> fs, current_index |-> current_index, msg |-> "crit_no_class",
          announce |-> FALSE]
    ELSE IF ~(current_index < Len(students))
              \/ ~Exists(fs, current_files.attendance) \/ fail = "log"
    THEN [fs |-> fs, current_index |-> current_index, msg |-> "crit_record_failed",
          announce |-> FALSE]
    ELSE LET student == students[current_index + 1]
             att == current_files.attendance
             sta == current_files.stats
             f1 == WriteFile(fs, att, Append(fs[att].rows, Record(student, status)))
         IN IF ~Exists(f1, sta) \/ fail = "stats"
            THEN [fs |-> f1, current_index |-> current_index + 1,
                  msg |-> "crit_record_failed", announce |-> FALSE]
            ELSE [fs |-> WriteFile(f1, sta, IncrementStat(f1[sta].rows, student.id, status)),
                  current_index |-> current_index + 1,
                  msg |-> IF current_index + 1 < Len(students)
                          THEN "none" ELSE "info_complete",
                  announce |-> current_index + 1 < Len(students)]

(* AttendanceSystem.record_status.  fail names the table whose read or     *)
(* write raises (a file held open by another program): "log", "stats" or   *)
(* "none".                                                                 *)
record_result(status, fail) ==
    IF current_files.attendance = NoPath
    THEN [fs |-> fs, current_index |-> current_index, msg |-> "crit_no_class",
          announce |-> FALSE]
    ELSE IF ~(current_index < Len(students))
              \/ ~Exists(fs, current_files.attendance) \/ fail = "log"
    THEN \* IndexError, or the attendance file cannot be read or written
         [fs |-> fs, current_index |-> current_index, msg |-> "crit_record_failed",
          announce |-> FALSE]
    ELSE LET student == students[current_index + 1]
             att == current_files.attendance
             sta == current_files.stats
             f1 == WriteFile(fs, att, Append(fs[att].rows, Record(student, status)))
         IN IF ~Exists(f1, sta) \/ fail = "stats"
            THEN [fs |-> f1, current_index |-> current_index,
                  msg |-> "crit_record_failed", announce |-> FALSE]
            ELSE [fs |-> WriteFile(f1, sta, IncrementStat(f1[sta].rows, student.id, status)),
                  current_index |-> current_index + 1,
                  msg |-> IF current_index + 1 < Len(students)
                          THEN "none" ELSE "info_complete",
                  announce |-> current_index + 1 < Len(students)]

\* attendance rows on disk
RECURSIVE SumRows(_)
SumRows(S) ==
    IF S = {} THEN 0
    ELSE LET p == CHOOSE q \in S : TRUE IN Len(fs[p].rows) + SumRows(S \ {p})
LogRows == SumRows({p \in Paths : p.kind = "attendance"})

record_status(status, fail) ==
    /\ alive
    /\ fail # "none" => record_result(status, "none").fs # fs
    /\ LET r == record_result(status, fail)
       IN /\ r.fs # fs => LogRows < MaxLog
          /\ fs' = r.fs
          /\ Finish(students, r.current_index, r.announce)
    /\ UNCHANGED index

(* delete_class, lines 245-254: the files of current_files are renamed     *)
(* into the backup directory data/deleted_classes/<date>/ as               *)
(* <HHMMSS>_<basename>, in KindOrder, the first n of them.  The program    *)
(* never reads the backup directory: the files a call archives, each       *)
(* [path, rows], are the archived field of its result and are not kept in  *)
(* the state.                                                              *)
RECURSIVE Archive(_, _, _)
Archive(f, cf, n) ==
    IF n = 0 THEN [fs |-> f, archived |-> {}]
    ELSE LET s == Archive(f, cf, n - 1)
             src == cf[KindOrder[n]]
         IN IF Exists(s.fs, src)
            THEN [fs |-> [s.fs EXCEPT ![src] = NoFile],
                  archived |-> s.archived \cup {[path |-> src, rows |-> s.fs[src].rows]}]
            ELSE s

\* delete_class, lines 259-264: every name is stripped, the rows whose
\* stripped name equals the stripped current class are dropped
StripIndex(idx, cls) ==
    SelectSeq([i \in 1..Len(idx) |-> [ReadIndex(idx)[i] EXCEPT !.name = strip(@)]],
              LAMBDA r : r.name # strip(cls))

\* QListWidget.takeItem(row)
takeItem(list, row) ==
    [i \in 1..(Len(list) - 1) |-> IF i <= row THEN list[i] ELSE list[i + 1]]

(* AttendanceSystem.delete_class.  confirm is the answer to the question   *)
(* box; fail: the first os.rename raises (the file is held open by another *)
(* program).                                                               *)
delete_result(confirm, fail) ==
    LET same == [fs |-> fs, archived |-> {}, index |-> index, class_list |-> class_list,
                 current_row |-> current_row, current_class |-> current_class,
                 current_files |-> current_files, students |-> students, msg |-> "none"]
    IN IF current_class = NoClass
       THEN [same EXCEPT !.msg = "warn_select_delete"]
       ELSE IF ~confirm
       THEN same
       ELSE IF fail /\ \E k \in Kinds : Exists(fs, current_files[k])
       THEN \* PermissionError
            [same EXCEPT !.msg = "crit_permission"]
       ELSE LET r == Archive(fs, current_files, 3)
                idx == StripIndex(index, current_class)
            IN IF current_row >= 0
               THEN [fs |-> r.fs, archived |-> r.archived, index |-> idx,
                     class_list |-> takeItem(class_list, current_row),
                     current_row |-> IF current_row < Len(class_list) - 1
                                     THEN current_row ELSE Len(class_list) - 2,
                     current_class |-> NoClass, current_files |-> NoFiles,
                     students |-> <<>>, msg |-> "info_deleted"]
               ELSE [same EXCEPT !.fs = r.fs, !.archived = r.archived, !.index = idx,
                                 !.msg = "info_deleted"]

delete_class(confirm, fail) ==
    /\ alive
    /\ LET r == delete_result(confirm, fail)
       IN /\ fs' = r.fs
          /\ index' = r.index
          /\ class_list' = r.class_list
          /\ current_row' = r.current_row
          /\ current_class' = r.current_class
          /\ current_files' = r.current_files
          /\ students' = r.students
    /\ UNCHANGED <<classes, current_index, running, alive>>

(* delete_class when the n-th os.rename (n = 2, 3) raises PermissionError  *)
(* (the file is held open by another program): the files before it are     *)
(* already in the backup, the except of line 280 shows "权限错误", and the *)
(* index, the list and the session are left as they were.                  *)
delete_interrupted_result(n) ==
    [fs |-> Archive(fs, current_files, n - 1).fs,
     archived |-> Archive(fs, current_files, n - 1).archived,
     msg |-> "crit_permission"]

delete_class_interrupted(n) ==
    /\ alive
    /\ current_class # NoClass
    /\ Exists(fs, current_files[KindOrder[n]])
    /\ delete_interrupted_result(n).fs # fs
    /\ fs' = delete_interrupted_result(n).fs
    /\ UNCHANGED <<index, classes, class_list, current_row, current_class,
                   current_files, students, current_index, running, alive>>

(* ------------------------- import_students ---------------------------- *)
\* what the file dialog and the chosen file hold
ImportInputs ==
    { [kind |-> "cancel", cols |-> {}, rows |-> <<>>],
      [kind |-> "missing", cols |-> {}, rows |-> <<>>],
      [kind |-> "badext", cols |-> {}, rows |-> <<>>],
      [kind |-> "table", cols |-> {"id"}, rows |-> <<Row("1", Blank)>>],
      [kind |-> "table", cols |-> {"id", "name"},
       rows |-> <<Row(Blank, "A"), Row("1", Blank)>>],
      [kind |-> "table", cols |-> {"id", "name"},
       rows |-> <<Row("1", "A"), Row("1", "A"), Row(Blank, "B"), Row("1", "B")>>] }

\* line 386: df[['id', 'name']].dropna().drop_duplicates()
Clean(rows) == drop_duplicates(dropna(rows))

\* the early errors without the two checks on the table read (lines 379-388)
EarlyErrorUnchecked(inp) ==
    \/ inp.kind \in {"missing", "badext"}
    \/ current_class = NoClass

\* the exception raised inside the try block before base_name is bound
EarlyError(inp) ==
    \/ inp.kind \in {"missing", "badext"}
    \/ ~({"id", "name"} \subseteq inp.cols)
    \/ Clean(inp.rows) = <<>>
    \/ current_class = NoClass

(* AttendanceSystem.import_students.  fail names the write that raises:    *)
(* "roster" (line 402), "index" (lines 405-408), "stats" (line 445) or     *)
(* "none".  uncaught: an exception leaves the slot (lines 424-445 are      *)
(* outside the try block).                                                 *)
import_result(inp, fail) ==
    IF inp.kind = "cancel"
    THEN [fs |-> fs, index |-> index, msg |-> "none", uncaught |-> FALSE]
    ELSE IF EarlyError(inp)
    THEN \* caught and shown; then base_name is unbound at line 425
         [fs |-> fs, index |-> index, msg |-> "crit_import_failed", uncaught |-> TRUE]
    ELSE LET base_name == ImportBaseName(current_class)
             target_path == Path(base_name, "students")
             f1 == IF fail = "roster" THEN fs
                   ELSE WriteFile(fs, target_path, Clean(inp.rows))
             df == ReadIndex(index)
             idx1 == IF fail \in {"roster", "index"} THEN index
                     ELSE [i \in 1..Len(df) |->
                             IF df[i].name = current_class
                             THEN [df[i] EXCEPT !.students = target_path]
                             ELSE df[i]]
             msg == IF fail \in {"roster", "index"}
                    THEN "crit_import_failed" ELSE "info_imported"
         IN IF ~Exists(f1, target_path) \/ fail = "stats"
            THEN \* read_excel(files['students']) or the write of the stats raises
                 [fs |-> f1, index |-> idx1, msg |-> msg, uncaught |-> TRUE]
            ELSE [fs |-> WriteFile(f1, Path(base_name, "stats"),
                                   InitStats(f1[target_path].rows)),
                  index |-> idx1, msg |-> msg, uncaught |-> FALSE]

(* An exception that leaves a slot uncaught either aborts the process or   *)
(* is printed and the event loop goes on, by the PyQt version.             *)
import_students(inp, fail) ==
    /\ alive
    /\ fail # "none" => inp.kind # "cancel" /\ ~EarlyError(inp)
    /\ LET r == import_result(inp, fail)
       IN /\ fs' = r.fs
          /\ index' = r.index
          /\ \/ UNCHANGED <<classes, class_list, current_row, current_class,
                            current_files, students, current_index, running, alive>>
             \/ /\ r.uncaught
                /\ Abort

(* --------------------------- specification ---------------------------- *)
\* the user's inputs, every read and write of a file succeeding
NextOK ==
    \/ \E n \in ClassNames : create_class(n)
    \/ \E i \in 0..(MaxClasses - 1) : select_class(i)
    \/ \E c \in BOOLEAN : delete_class(c, FALSE)
    \/ \E inp \in ImportInputs : import_students(inp, "none")
    \/ start_attendance
    \/ replay_name
    \/ VoiceFinished
    \/ \E s \in Status : record_status(s, "none")
    \/ Restart

\* a read or write of a file raises
Fault ==
    \/ delete_class(TRUE, TRUE)
    \/ \E inp \in ImportInputs, k \in {"roster", "index", "stats"} : import_students(inp, k)
    \/ \E s \in Status, k \in {"log", "stats"} : record_status(s, k)

Next == NextOK \/ Fault

Spec == Init /\ [][Next]_vars

\* the behaviours in which no file operation fails
SpecOK == Init /\ [][NextOK]_vars

(* The behaviours of a user who names every class "a", in which the only   *)
(* failure is a deletion interrupted by a file that another program holds  *)
(* open.                                                                   *)
NextInterrupted ==
    \/ create_class(<<"a">>)
    \/ \E i \in 0..(MaxClasses - 1) : select_class(i)
    \/ \E c \in BOOLEAN : delete_class(c, FALSE)
    \/ \E n \in 2..3 : delete_class_interrupted(n)
    \/ \E inp \in ImportInputs : import_students(inp, "none")
    \/ start_attendance
    \/ replay_name
    \/ VoiceFinished
    \/ \E s \in Status : record_status(s, "none")
    \/ Restart

SpecInterrupted == Init /\ [][NextInterrupted]_vars

(* The behaviours of a user who keeps the classes "a" and "b", whose files *)
(* are apart, no file operation failing.                                   *)
NextTwo ==
    \/ \E n \in {<<"a">>, OtherName} : create_class(n)
    \/ \E i \in 0..(MaxClasses - 1) : select_class(i)
    \/ \E c \in BOOLEAN : delete_class(c, FALSE)
    \/ \E inp \in ImportInputs : import_students(inp, "none")
    \/ start_attendance
    \/ replay_name
    \/ VoiceFinished
    \/ \E s \in Status : record_status(s, "none")
    \/ Restart

SpecTwo == Init /\ [][NextTwo]_vars

(* ------------------------------ claims -------------------------------- *)
\* a handler reported success: it showed no warning and no critical box
Succeeded(r) == r.msg \notin ErrorMsgs

\* the rows of the index, as loadClasses returns them, whose name is name
Indexed(idx, name) == {i \in 1..Len(idx) : load_classes(idx)[i].name = name}

\* the student at the cursor
Current == students[current_index + 1]

(* C1: whenever recordDecision(status) succeeds, the selected class's      *)
(* attendance log has exactly one new row, for the student at the cursor   *)
(* with that status; the counter of that status in the statistics row of   *)
(* that student is one higher; no other counter of any statistics row has  *)
(* changed.                                                                *)
C1_RecordTouchesOneCounter ==
    alive =>
      \A status \in Status :
        LET r == record_result(status, "none")
            att == current_files.attendance
            sta == current_files.stats
        IN Succeeded(r) =>
             /\ current_index < Len(students)
             /\ r.fs[att].rows = Append(fs[att].rows, Record(Current, status))
             /\ Len(r.fs[sta].rows) = Len(fs[sta].rows)
             /\ \A i \in 1..Len(fs[sta].rows) : \A s \in Status :
                   r.fs[sta].rows[i].cnt[s] =
                     fs[sta].rows[i].cnt[s]
                     + (IF /\ fs[sta].rows[i].id = Current.id
                           /\ fs[sta].rows[i].name = Current.name
                           /\ s = status
                        THEN 1 ELSE 0)

(* C2: a session's cursor counts the successful recordDecision calls since *)
(* startSession took the snapshot: a successful call records the student   *)
(* at the cursor and moves the cursor by one, reporting completion exactly *)
(* when the cursor reaches the length of the snapshot; a failed call       *)
(* leaves the cursor; nothing else moves the cursor except a reset to 0,   *)
(* and the snapshot changes only when the session is replaced or           *)
(* discarded.  At cursor = length every call fails with an error and       *)
(* leaves the cursor, the log and the statistics as they were.             *)
C2_RecordResults ==
    alive =>
      \A status \in Status, fail \in {"none", "log", "stats"} :
        LET r == record_result(status, fail)
        IN /\ Succeeded(r) =>
                /\ current_index < Len(students)
                /\ r.current_index = current_index + 1
                /\ r.fs[current_files.attendance].rows =
                     Append(fs[current_files.attendance].rows, Record(Current, status))
                /\ (r.msg = "info_complete") <=> (r.current_index = Len(students))
           /\ ~Succeeded(r) => r.current_index = current_index
           /\ current_index >= Len(students) =>
                ~Succeeded(r) /\ r.fs = fs /\ r.current_index = current_index

C2_CursorStep ==
    /\ current_index' # current_index =>
          \/ current_index' = 0
          \/ /\ current_index' = current_index + 1
             /\ students' = students
             /\ \E status \in Status :
                  /\ Succeeded(record_result(status, "none"))
                  /\ fs' = record_result(status, "none").fs
    /\ students' # students => current_index' = 0 \/ students' = <<>>

C2_SessionCountsDecisions == []C2_RecordResults /\ [][C2_CursorStep]_vars

\* C2's case: a session over two students has been completed by two decisions
C2_Witness ==
    /\ alive
    /\ Len(students) = 2
    /\ current_index = 2
    /\ Exists(fs, current_files.attendance)
    /\ \E s1, s2 \in Status :
          fs[current_files.attendance].rows =
            <<Record(students[1], s1), Record(students[2], s2)>>

(* C3: when the append to the log or the increment of the statistics       *)
(* fails, recordDecision fails and the cursor stays; the cursor moves past *)
(* a student only when the log row and the increment of one of that        *)
(* student's counters have both been written.                              *)
C3_CursorOnlyAfterBothWrites ==
    alive =>
      \A status \in Status, fail \in {"none", "log", "stats"} :
        LET r == record_result(status, fail)
            att == current_files.attendance
            sta == current_files.stats
        IN /\ fail # "none" => ~Succeeded(r) /\ r.current_index = current_index
           /\ r.current_index # current_index =>
                /\ r.fs[att].rows = Append(fs[att].rows, Record(Current, status))
                /\ \E i \in 1..Len(fs[sta].rows) :
                      /\ fs[sta].rows[i].id = Current.id
                      /\ r.fs[sta].rows[i].cnt[status] = fs[sta].rows[i].cnt[status] + 1

(* C4: when the student at the cursor has no row in the statistics table   *)
(* of the selected class, recordDecision fails with an error and the       *)
(* cursor stays.                                                           *)
C4_MissingStatRowIsAnError ==
    (/\ alive
     /\ current_index < Len(students)
     /\ Exists(fs, current_files.attendance)
     /\ Exists(fs, current_files.stats)
     /\ \A i \in 1..Len(fs[current_files.stats].rows) :
           fs[current_files.stats].rows[i].id # Current.id)
    => \A status \in Status :
         /\ ~Succeeded(record_result(status, "none"))
         /\ record_result(status, "none").current_index = current_index

\* the rows of an import input that have both an id and a name, each once
ValidRows(inp) == Clean(inp.rows)

(* C5: a successful importRoster into an indexed class leaves the roster   *)
(* the registry points to for that class with exactly the N distinct rows  *)
(* of the input that have an id and a name, and the statistics table the   *)
(* registry points to for that class with N rows, one per roster row, all  *)
(* counters zero.                                                          *)
C5_ImportFillsRegistryTables ==
    alive =>
      \A inp \in ImportInputs :
        LET r == import_result(inp, "none")
        IN (r.msg = "info_imported" /\ ~r.uncaught /\ Indexed(index, current_class) # {}) =>
             \A i \in Indexed(r.index, current_class) :
               LET e == load_classes(r.index)[i]
               IN /\ Exists(r.fs, e.students)
                  /\ r.fs[e.students].rows = ValidRows(inp)
                  /\ Exists(r.fs, e.stats)
                  /\ r.fs[e.stats].rows = InitStats(ValidRows(inp))

\* an import input that fails before the roster is written
FailsEarly(inp) ==
    /\ inp.kind = "table"
    /\ \/ "id" \notin inp.cols
       \/ "name" \notin inp.cols
       \/ \A i \in 1..Len(inp.rows) : inp.rows[i].id = Blank \/ inp.rows[i].name = Blank
       \/ current_class = NoClass

(* C6: an importRoster whose input lacks the id or the name column, or is  *)
(* empty after cleaning, or is made with no class selected, fails with an  *)
(* error and modifies no roster, statistics table, attendance log or class *)
(* index.                                                                  *)
C6_FailedImportWritesNothing ==
    alive =>
      \A inp \in ImportInputs :
        FailsEarly(inp) =>
          /\ import_result(inp, "none").msg = "crit_import_failed"
          /\ import_result(inp, "none").fs = fs
          /\ import_result(inp, "none").index = index

\* C6's case: an input without the name column is imported into a selected
\* class whose roster and statistics hold students; they are left as they were
C6_Witness ==
    /\ alive
    /\ Indexed(index, current_class) # {}
    /\ Exists(fs, current_files.students)
    /\ fs[current_files.students].rows # <<>>
    /\ \E p \in Paths : p.kind = "stats" /\ fs[p].rows # <<>>
    /\ \E inp \in ImportInputs :
          /\ inp.kind = "table"
          /\ "name" \notin inp.cols
          /\ import_result(inp, "none").msg = "crit_import_failed"
          /\ import_result(inp, "none").fs = fs

(* C7: createClass with a name that is in the index, by the raw name or by *)
(* the file base name derived from it, fails with the duplicate-class      *)
(* warning and leaves the index and every table as they were; no two rows  *)
(* of the index have names with the same file base name.                   *)
C7_DuplicateNamesRejected ==
    /\ alive =>
         \A n \in ClassNames \ {<<>>} :
           (\E i \in 1..Len(index) :
               \/ load_classes(index)[i].name = n
               \/ SaveBaseName(load_classes(index)[i].name) = SaveBaseName(n))
           => /\ create_result(n).msg = "warn_exists"
              /\ create_result(n).index = index
              /\ create_result(n).fs = fs
    /\ \A i, j \in 1..Len(index) :
         SaveBaseName(load_classes(index)[i].name) = SaveBaseName(load_classes(index)[j].name)
           => i = j

(* C8: where a name is not indexed, a successful createClass(name)         *)
(* followed by loadClasses gives exactly one entry with that name, and the *)
(* roster, attendance log and statistics that entry points to exist and    *)
(* are empty.                                                              *)
C8_CreatedClassIsEmpty ==
    alive =>
      \A n \in ClassNames \ {<<>>} :
        LET r == create_result(n)
        IN (Indexed(index, n) = {} /\ r.msg = "info_created") =>
             /\ Cardinality(Indexed(r.index, n)) = 1
             /\ \A i \in Indexed(r.index, n) : \A k \in Kinds :
                  /\ Exists(r.fs, load_classes(r.index)[i][k])
                  /\ r.fs[load_classes(r.index)[i][k]].rows = <<>>

(* C9: deleteClass on the selected, indexed class removes it from the      *)
(* loadClasses output and moves every existing table the registry points   *)
(* to for it (roster, attendance log, statistics) into the backup with the *)
(* rows it had.                                                            *)
C9_DeleteArchivesRegistryTables ==
    (alive /\ Indexed(index, current_class) # {}) =>
      LET r == delete_result(TRUE, FALSE)
      IN /\ r.msg = "info_deleted"
         /\ Indexed(r.index, current_class) = {}
         /\ \A i \in Indexed(index, current_class) : \A k \in Kinds :
              LET p == load_classes(index)[i][k]
              IN Exists(fs, p) =>
                   /\ [path |-> p, rows |-> fs[p].rows] \in r.archived
                   /\ ~Exists(r.fs, p)

(* C10: deleteClass of a selected name that no row of the index matches    *)
(* (equality of the whitespace-trimmed names) fails with an error; it      *)
(* never reports a successful deletion.                                    *)
C10_DeleteOfAbsentClassFails ==
    (/\ alive
     /\ current_class # NoClass
     /\ \A i \in 1..Len(index) : strip(load_classes(index)[i].name) # strip(current_class))
    => /\ delete_result(TRUE, FALSE).msg \in ErrorMsgs
       /\ delete_result(TRUE, FALSE).msg # "info_deleted"

\* the student ids of a table's rows
Ids(rows) == {rows[i].id : i \in 1..Len(rows)}

(* C11: for every indexed class, the student ids of the statistics table   *)
(* the registry points to are the student ids of the roster the registry   *)
(* points to (where both files are present).                               *)
C11_StatsIdsAreRosterIds ==
    \A i \in 1..Len(index) :
      LET e == load_classes(index)[i]
      IN (Exists(fs, e.students) /\ Exists(fs, e.stats)) =>
           Ids(fs[e.stats].rows) = Ids(fs[e.students].rows)

(* C12: in every reachable state the cursor of the session is within the   *)
(* snapshot: 0 <= cursor <= len(students).                                 *)
C12_CursorWithinSnapshot ==
    /\ 0 <= current_index
    /\ current_index <= Len(students)

\* the roster startSession would read is missing or empty
NoRoster ==
    \/ ~Exists(fs, current_files.students)
    \/ fs[current_files.students].rows = <<>>

(* C13: startSession on a selected class whose roster is empty or missing  *)
(* fails with an error and enters no session: it triggers no announcement, *)
(* afterwards no student is current, and a recordDecision that follows     *)
(* fails and writes nothing.  (A start that fails on a missing roster      *)
(* changes nothing, so the recordDecision that follows it is the one of    *)
(* the same state.)                                                        *)
C13_StartWithoutRosterFails ==
    (alive /\ current_class # NoClass /\ NoRoster) =>
       /\ start_result.msg \in ErrorMsgs
       /\ ~start_result.announce
       /\ ~Speaks(start_result.students, start_result.current_index)
       /\ (start_result.students = students
             /\ start_result.current_index = current_index) =>
            \A status \in Status :
              /\ ~Succeeded(record_result(status, "none"))
              /\ record_result(status, "none").fs = fs

(* C14: at every moment at most one announcement is in flight.             *)
C14_AtMostOneAnnouncement == running <= 1

\* a is a prefix of b
IsPrefix(a, b) == Len(a) <= Len(b) /\ SubSeq(b, 1, Len(a)) = a

(* C15: the attendance log of a class is append-only: across every step    *)
(* that leaves the class indexed, the log the registry points to is still  *)
(* present, the rows it had are a prefix of the rows it has, and at most   *)
(* one row was added.                                                      *)
C15_LogStep ==
    \A i \in 1..Len(index) :
      (\E j \in 1..Len(index') : load_classes(index')[j].name = load_classes(index)[i].name)
      => LET p == load_classes(index)[i].attendance
         IN Exists(fs, p) =>
              /\ Exists(fs', p)
              /\ IsPrefix(fs[p].rows, fs'[p].rows)
              /\ Len(fs'[p].rows) <= Len(fs[p].rows) + 1

C15_LogIsAppendOnly == [][C15_LogStep]_vars

\* names that are empty after trimming whitespace
BlankNames == {<<>>, <<" ">>}

(* C16: createClass rejects every name that is empty after trimming        *)
(* whitespace: it creates no table file and adds no row to the index.      *)
C16_BlankNameRejected ==
    alive =>
      \A n \in BlankNames :
        /\ create_result(n).msg # "info_created"
        /\ create_result(n).fs = fs
        /\ create_result(n).index = index

(* C17: a successful recordDecision writes the log (and statistics) of an  *)
(* indexed class only for a student of that class's roster: the student at *)
(* the cursor is a row of the roster the registry points to for the class  *)
(* whose log receives the row.                                             *)
C17_RecordsOwnStudents ==
    alive =>
      \A status \in Status :
        Succeeded(record_result(status, "none")) =>
          \A i \in 1..Len(index) :
            LET e == load_classes(index)[i]
            IN e.attendance = current_files.attendance =>
                 /\ Exists(fs, e.students)
                 /\ \E k \in 1..Len(fs[e.students].rows) : fs[e.students].rows[k] = Current

(* C18: a recordDecision that fails leaves the attendance log and the      *)
(* statistics table as they were before the call.                          *)
C18_FailedRecordWritesNothing ==
    alive =>
      \A status \in Status, fail \in {"none", "log", "stats"} :
        ~Succeeded(record_result(status, fail)) =>
          record_result(status, fail).fs = fs

(* C19: after a successful importRoster into the selected, indexed class,  *)
(* the next startSession (the class not selected again, the program not    *)
(* restarted) loads exactly the imported rows in their order, and the      *)
(* tables the session reads and writes are the ones the registry points to *)
(* for that class.                                                         *)
C19_ImportStep ==
    \A inp \in ImportInputs :
      (/\ import_students(inp, "none")
       /\ import_result(inp, "none").msg = "info_imported"
       /\ alive'
       /\ Indexed(index, current_class) # {})
      => /\ (start_result.students = ValidRows(inp))'
         /\ (start_result.current_index = 0)'
         /\ \A i \in Indexed(index', current_class') :
              FilesOf(load_classes(index')[i]) = current_files'

C19_SessionUsesImportedRoster == [][C19_ImportStep]_vars

(* C20: a confirmed deleteClass of the selected class leaves, for every    *)
(* other class of the index (another raw name), its index row with the     *)
(* stored name and its roster, attendance log and statistics table as they *)
(* were.                                                                   *)
C20_DeleteTouchesOneClass ==
    (alive /\ current_class # NoClass) =>
      \A i \in 1..Len(index) :
        LET e == load_classes(index)[i]
            r == delete_result(TRUE, FALSE)
        IN e.name # current_class =>
             /\ \E j \in 1..Len(r.index) : r.index[j] = e
             /\ \A k \in Kinds : r.fs[e[k]] = fs[e[k]]
====
